---- MODULE Spec2Model ----
(***************************************************************************)
(* Model of .kittify/scripts/tasks/tasks_cli.py: the work-package lane     *)
(* commands (move, history, rollback) and the acceptance commands (status, *)
(* verify, accept) over a working tree and a git index.                    *)
(*                                                                         *)
(* A document is a sequence of lines; a line is a 4-tuple of strings       *)
(* <<kind, a, b, c>>.  Timestamps and note texts are opaque payload of a   *)
(* log entry that no command branches on; they are not represented.        *)
(***************************************************************************)
EXTENDS Integers, Sequences, FiniteSets, TLC

VARIABLES
    present,   \* the paths <<lane directory, work package>> that hold a file
    content,   \* the text of the file at each path (<<>> where there is none)
    index,     \* the paths in the git index
    dirty,     \* the paths `git status` lists as staged or modified
    previous,  \* history variable: the lane each work package was moved out of last
    last       \* what the last command reported

vars == <<present, content, index, dirty, previous, last>>

\* The working tree and the git index.
tree == <<present, content, index, dirty>>

(* ------------------------------ bounds -------------------------------- *)

\* Total number of activity entries in the working tree at which the model
\* stops issuing lane commands.
MaxLog == 3

(* ----------------------------- constants ------------------------------ *)

LANES == {"backlog", "in-progress", "review", "done"}

\* Work packages of the one feature of the model; the file name of a work
\* package (its relative_subpath) is the same in every lane directory.
WorkPackages == {"WP01", "WP02"}

\* Lane arguments a caller can type: the lanes and one name that is no lane.
LaneArgs == LANES \cup {"bogus"}

\* Directories that can exist under kitty-specs/<feature>/tasks.
Dirs == LaneArgs

Paths == Dirs \X WorkPackages

\* An argument that was not given on the command line (argparse None).
None == "<none>"

\* Work packages the lane commands are issued for; the other work package is
\* a file of the feature that the commands leave alone.
Targets == {"WP01"}

\* Who runs a command: a caller that gives none of --agent, --shell-pid,
\* --assignee and --update-shell, and one that gives all of them.
Callers ==
    {[agent |-> "", shell_pid |-> "", assignee |-> None, update_shell |-> FALSE],
     [agent |-> "bob", shell_pid |-> "42", assignee |-> "alice",
      update_shell |-> TRUE]}
HistoryLaneArgs == {"", "review", "bogus"}
Modes == {"auto", "pr", "local", "checklist"}

(* ------------------------------- lines -------------------------------- *)

Delim == <<"---", "", "", "">>
Blank == <<"blank", "", "", "">>
Prose == <<"text", "", "", "">>
KV(key, value) == <<"kv", key, value, "">>
LogEntry(agent, shell_pid, lane) == <<"log", agent, shell_pid, lane>>

(* --------------------------- document model --------------------------- *)

RECURSIVE LeadingBlanks(_)
LeadingBlanks(s) ==
    IF s # <<>> /\ Head(s) = Blank THEN 1 + LeadingBlanks(Tail(s)) ELSE 0

\* Index of the closing delimiter of a frontmatter block, 0 when none.
ClosingIdx(text) ==
    IF Len(text) >= 2 /\ text[1] = Delim /\ \E i \in 2..Len(text) : text[i] = Delim
    THEN CHOOSE i \in 2..Len(text) :
            /\ text[i] = Delim
            /\ \A j \in 2..(i - 1) : text[j] # Delim
    ELSE 0

split_frontmatter(text) ==
    LET c == ClosingIdx(text) IN
    IF c = 0
    THEN [frontmatter |-> <<>>, body |-> text, padding |-> <<>>]
    ELSE LET tail == SubSeq(text, c + 1, Len(text))
             n == LeadingBlanks(tail)
         IN [frontmatter |-> SubSeq(text, 1, c),
             body |-> SubSeq(tail, n + 1, Len(tail)),
             padding |-> SubSeq(tail, 1, n)]

build_document(frontmatter, body, padding) == frontmatter \o padding \o body

HasKey(frontmatter, key) ==
    \E i \in 1..Len(frontmatter) :
        frontmatter[i][1] = "kv" /\ frontmatter[i][2] = key

KeyIdx(frontmatter, key) ==
    CHOOSE i \in 1..Len(frontmatter) :
        /\ frontmatter[i][1] = "kv" /\ frontmatter[i][2] = key
        /\ \A j \in 1..(i - 1) :
              ~(frontmatter[j][1] = "kv" /\ frontmatter[j][2] = key)

\* The value of a frontmatter key, "" when the key is absent.
scalar(frontmatter, key) ==
    IF HasKey(frontmatter, key) THEN frontmatter[KeyIdx(frontmatter, key)][3] ELSE ""

set_scalar(frontmatter, key, value) ==
    IF frontmatter = <<>>
    THEN <<Delim, KV(key, value), Delim>>
    ELSE IF HasKey(frontmatter, key)
         THEN [frontmatter EXCEPT ![KeyIdx(frontmatter, key)] = KV(key, value)]
         ELSE SubSeq(frontmatter, 1, Len(frontmatter) - 1)
                 \o <<KV(key, value), Delim>>

append_activity_log(body, entry) == Append(body, entry)

IsLog(line) == line[1] = "log"

\* The activity entries of a body, in order.
activity_entries(body) == SelectSeq(body, IsLog)

ensure_lane_ok(lane) == lane \in LANES

(* ------------------------- work-package locator ----------------------- *)

Candidates(name) == {d \in Dirs : <<d, name>> \in present}

locate_work_package(name) ==
    LET lane == CHOOSE d \in Candidates(name) : TRUE
        parts == split_frontmatter(content[<<lane, name>>])
    IN [name |-> name,
        path |-> <<lane, name>>,
        current_lane |-> lane,
        frontmatter |-> parts.frontmatter,
        body |-> parts.body,
        padding |-> parts.padding,
        agent |-> scalar(parts.frontmatter, "agent"),
        shell_pid |-> scalar(parts.frontmatter, "shell_pid")]

(* ------------------------------- git ---------------------------------- *)

\* The paths `git status` lists as staged or modified.
git_status_lines == dirty

detect_conflicting_wp_status(status_lines, old_path, new_path) ==
    {p \in status_lines : p # old_path /\ p # new_path}

\* `git rm` refuses a path that is not in the index or that has changes
\* staged in the index.
GitRmAccepts(path) == path \in index /\ path \notin dirty

(* --------------------------- command results -------------------------- *)

\* What the last command reported: its name, the work package, how it ended
\* ("ok", "dryrun", "error" for a TaskCliError, "giterror" for a git call that
\* failed under check=True), its exit status and, for a command that was not
\* rejected, whether it ran with --dry-run and, when it wrote, the lane it
\* logged; for the acceptance commands also the flags, summary.ok and whether
\* perform_acceptance was called.
NoCommand ==
    [cmd |-> "none", wp |-> "", lane |-> "", outcome |-> "", dry_run |-> FALSE,
     checklist |-> FALSE, json |-> FALSE, lenient |-> FALSE, allow_fail |-> FALSE,
     ok |-> FALSE, performed |-> FALSE, exit |-> 0]

Result(cmd, name, lane, outcome, dry_run) ==
    [NoCommand EXCEPT !.cmd = cmd, !.wp = name, !.lane = lane,
                      !.outcome = outcome,
                      !.dry_run = dry_run,
                      !.exit = IF outcome \in {"ok", "dryrun"} THEN 0 ELSE 1]

Entries(text) == Len(activity_entries(text))

RECURSIVE SumEntries(_)
SumEntries(ps) ==
    IF ps = {} THEN 0
    ELSE LET p == CHOOSE q \in ps : TRUE
         IN Entries(content[p]) + SumEntries(ps \ {p})

TotalLog == SumEntries(present)

(* ------------------------------- Init --------------------------------- *)

DocPlain == <<Delim, KV("lane", "backlog"), Delim, Blank, Prose>>
\* A document without a frontmatter block.
DocBare == <<Blank, Prose>>
DocLogged ==
    <<Delim, KV("title", "t"), KV("lane", "backlog"), KV("agent", "amy"), Delim,
      Blank, Prose, LogEntry("amy", "", "backlog")>>

InitDocs == {DocBare, DocLogged}

\* Both work packages start committed in the backlog lane; the file of WP02
\* carries an edit that is not committed yet.
Init ==
    /\ present = {"backlog"} \X WorkPackages
    /\ \E d \in InitDocs :
          content = [p \in Paths |->
                        IF p = <<"backlog", "WP01">> THEN d
                        ELSE IF p = <<"backlog", "WP02">> THEN DocPlain
                        ELSE <<>>]
    /\ index = present
    /\ dirty = {<<"backlog", "WP02">>}
    /\ previous = [w \in WorkPackages |-> ""]
    /\ last = NoCommand

(* ----------------------------- stage_move ----------------------------- *)

\* Mutant of dry_run_returns: the dry-run flag is ignored.
dry_run_ignored(dry_run) == FALSE

dry_run_returns(dry_run) == dry_run

\* Mutant of move_frontmatter: the agent is not written.
move_frontmatter_no_agent(frontmatter, target_lane, agent, shell_pid) ==
    LET fm1 == set_scalar(frontmatter, "lane", target_lane)
    IN IF shell_pid # "" THEN set_scalar(fm1, "shell_pid", shell_pid) ELSE fm1

move_frontmatter(frontmatter, target_lane, agent, shell_pid) ==
    LET fm1 == set_scalar(frontmatter, "lane", target_lane)
        fm2 == set_scalar(fm1, "agent", agent)
    IN IF shell_pid # "" THEN set_scalar(fm2, "shell_pid", shell_pid) ELSE fm2

\* Mutant of move_content: the padding is not written back.
move_content_no_padding(frontmatter, new_body, padding) ==
    build_document(frontmatter, new_body, <<>>)

move_content(frontmatter, new_body, padding) ==
    build_document(frontmatter, new_body, padding)

\* A body whose last log entry is replaced by the new one.
logged_body_replaces_last(body, log_entry) ==
    IF Len(body) > 0 /\ IsLog(body[Len(body)])
    THEN Append(SubSeq(body, 1, Len(body) - 1), log_entry)
    ELSE append_activity_log(body, log_entry)

\* new_body = append_activity_log(wp.body, log_entry)
logged_body(body, log_entry) == append_activity_log(body, log_entry)

stage_move(wp, target_lane, agent, shell_pid, dry_run, cmd) ==
    LET new_path == <<target_lane, wp.name>>
        frontmatter == move_frontmatter(wp.frontmatter, target_lane, agent, shell_pid)
        log_entry == LogEntry(agent, shell_pid, target_lane)
        new_body == logged_body(wp.body, log_entry)
        new_content == move_content(frontmatter, new_body, wp.padding)
        removed == wp.path # new_path /\ GitRmAccepts(wp.path)
    IN IF dry_run_returns(dry_run)
       THEN /\ UNCHANGED <<present, content, index, dirty, previous>>
            /\ last' = Result(cmd, wp.name, "", "dryrun", dry_run)
       ELSE /\ present' = IF removed THEN (present \cup {new_path}) \ {wp.path}
                          ELSE present \cup {new_path}
            /\ content' = IF removed
                          THEN [content EXCEPT ![new_path] = new_content,
                                               ![wp.path] = <<>>]
                          ELSE [content EXCEPT ![new_path] = new_content]
            /\ index' = IF removed THEN (index \cup {new_path}) \ {wp.path}
                        ELSE index \cup {new_path}
            /\ dirty' = IF removed THEN dirty \cup {new_path, wp.path}
                        ELSE dirty \cup {new_path}
            /\ previous' = IF removed
                           THEN [previous EXCEPT ![wp.name] = wp.current_lane]
                           ELSE previous
            /\ last' = Result(cmd, wp.name, target_lane,
                              IF wp.path = new_path \/ removed THEN "ok"
                              ELSE "giterror", dry_run)

(* ---------------------------- move_command ---------------------------- *)

Rejected(cmd, name) ==
    /\ UNCHANGED <<present, content, index, dirty, previous>>
    /\ last' = Result(cmd, name, "", "error", FALSE)

\* The rejection of a move to the lane the work package is in; the message
\* names the lane.
RejectedInLane(cmd, name, lane) ==
    /\ UNCHANGED <<present, content, index, dirty, previous>>
    /\ last' = Result(cmd, name, lane, "error", FALSE)

already_in_lane_never(current_lane, lane) == FALSE

\* wp.current_lane == args.lane
already_in_lane(current_lane, lane) == current_lane = lane

move_command(cmd, a) ==
    IF Cardinality(Candidates(a.wp)) # 1
    THEN Rejected(cmd, a.wp)
    ELSE LET wp == locate_work_package(a.wp) IN
         IF already_in_lane(wp.current_lane, a.lane)
         THEN RejectedInLane(cmd, a.wp, a.lane)
         ELSE LET agent == IF a.agent # "" THEN a.agent
                           ELSE IF wp.agent # "" THEN wp.agent ELSE "system"
                  shell_pid == IF a.shell_pid # "" THEN a.shell_pid ELSE wp.shell_pid
                  new_path == <<a.lane, a.wp>>
                  conflicts == detect_conflicting_wp_status(
                                   git_status_lines, wp.path, new_path)
              IN IF conflicts # {} /\ ~a.force
                 THEN Rejected(cmd, a.wp)
                 ELSE stage_move(wp, a.lane, agent, shell_pid, a.dry_run, cmd)

MoveArgs ==
    {[wp |-> w, lane |-> l, agent |-> id.agent, shell_pid |-> id.shell_pid,
      assignee |-> id.assignee, dry_run |-> d, force |-> f] :
        w \in Targets, l \in LaneArgs, id \in Callers,
        d \in BOOLEAN, f \in BOOLEAN}

MoveCommand ==
    /\ TotalLog < MaxLog
    /\ \E a \in MoveArgs : move_command("move", a)

(* --------------------------- history_command -------------------------- *)

history_command(a) ==
    IF Cardinality(Candidates(a.wp)) # 1
    THEN Rejected("history", a.wp)
    ELSE LET wp == locate_work_package(a.wp)
             agent == IF a.agent # "" THEN a.agent
                      ELSE IF wp.agent # "" THEN wp.agent ELSE "system"
             shell_pid == IF a.shell_pid # "" THEN a.shell_pid ELSE wp.shell_pid
             lane == IF a.lane # "" THEN a.lane ELSE wp.current_lane
         IN IF ~ensure_lane_ok(lane)
            THEN Rejected("history", a.wp)
            ELSE LET fm1 == IF lane # wp.current_lane
                            THEN set_scalar(wp.frontmatter, "lane", lane)
                            ELSE wp.frontmatter
                     log_entry == LogEntry(agent, shell_pid, lane)
                     updated_body == append_activity_log(wp.body, log_entry)
                     fm2 == IF a.update_shell /\ shell_pid # ""
                            THEN set_scalar(fm1, "shell_pid", shell_pid) ELSE fm1
                     fm3 == IF a.assignee # None
                            THEN set_scalar(fm2, "assignee", a.assignee) ELSE fm2
                     fm4 == IF a.agent # ""
                            THEN set_scalar(fm3, "agent", agent) ELSE fm3
                     new_content == build_document(fm4, updated_body, wp.padding)
                 IN IF a.dry_run
                    THEN /\ UNCHANGED <<present, content, index, dirty, previous>>
                         /\ last' = Result("history", a.wp, "", "dryrun", a.dry_run)
                    ELSE /\ content' = [content EXCEPT ![wp.path] = new_content]
                         /\ index' = index \cup {wp.path}
                         /\ dirty' = dirty \cup {wp.path}
                         /\ UNCHANGED <<present, previous>>
                         /\ last' = Result("history", a.wp, lane, "ok", a.dry_run)

HistoryArgs ==
    {[wp |-> w, lane |-> l, agent |-> id.agent, shell_pid |-> id.shell_pid,
      update_shell |-> id.update_shell, assignee |-> id.assignee,
      dry_run |-> d] :
        w \in Targets, l \in HistoryLaneArgs, id \in Callers, d \in BOOLEAN}

HistoryCommand ==
    /\ TotalLog < MaxLog
    /\ \E a \in HistoryArgs : history_command(a)

(* -------------------------- rollback_command -------------------------- *)

rollback_command(a) ==
    IF Cardinality(Candidates(a.wp)) # 1
    THEN Rejected("rollback", a.wp)
    ELSE LET wp == locate_work_package(a.wp)
             entries == activity_entries(wp.body)
             n == Len(entries)
         IN IF n < 2
            THEN Rejected("rollback", a.wp)
            ELSE LET previous_lane == entries[n - 1][4] IN
                 IF ~ensure_lane_ok(previous_lane)
                 THEN Rejected("rollback", a.wp)
                 ELSE move_command("rollback",
                        [wp |-> a.wp,
                         lane |-> previous_lane,
                         agent |-> IF a.agent # "" THEN a.agent ELSE entries[n][2],
                         assignee |-> a.assignee,
                         shell_pid |-> IF a.shell_pid # "" THEN a.shell_pid
                                       ELSE entries[n][3],
                         dry_run |-> a.dry_run,
                         force |-> a.force])

RollbackArgs ==
    {[wp |-> w, agent |-> id.agent, shell_pid |-> id.shell_pid,
      assignee |-> id.assignee, dry_run |-> d, force |-> f] :
        w \in Targets, id \in Callers, d \in BOOLEAN, f \in BOOLEAN}

RollbackCommand ==
    /\ TotalLog < MaxLog
    /\ \E a \in RollbackArgs : rollback_command(a)

(* ------------------------------ git commit ---------------------------- *)

\* The user commits the staged and modified files, as the conflict message of
\* move_command asks; `git status` is clean afterwards.
GitCommit ==
    /\ dirty # {}
    /\ dirty' = {}
    /\ last' = Result("commit", "", "", "ok", FALSE)
    /\ UNCHANGED <<present, content, index, previous>>

Next == MoveCommand \/ HistoryCommand \/ RollbackCommand \/ GitCommit

Spec == Init /\ [][Next]_vars

(* ----------------------------- acceptance ----------------------------- *)

\* The summary of the feature has no outstanding item when every work package
\* is in the done lane, git status is clean and, under strict metadata, the
\* frontmatter lane of every work package names its directory.
collect_feature_summary(strict_metadata) ==
    [ok |-> /\ \A p \in present : p[1] = "done"
            /\ dirty = {}
            /\ strict_metadata =>
                  \A p \in present :
                      scalar(split_frontmatter(content[p]).frontmatter, "lane") = p[1]]

\* Mutant of exit_status: the exit status is 0 whatever the summary says.
exit_status_zero(ok) == 0

exit_status(ok) == IF ok THEN 0 ELSE 1

\* Mutant of acceptance_refused: outstanding items never stop the acceptance.
acceptance_refused_never(ok, allow_fail) == FALSE

acceptance_refused(ok, allow_fail) == ~ok /\ ~allow_fail

Report(cmd, a, ok, checklist, allow_fail, performed, exit) ==
    [NoCommand EXCEPT !.cmd = cmd, !.json = a.json, !.lenient = a.lenient,
                      !.checklist = checklist, !.allow_fail = allow_fail,
                      !.ok = ok, !.performed = performed, !.exit = exit]

\* perform_acceptance records the acceptance and, with auto_commit, commits;
\* it can fail with an AcceptanceError.
perform_acceptance(auto_commit, raises) ==
    /\ dirty' = IF auto_commit /\ ~raises THEN {} ELSE dirty
    /\ UNCHANGED <<present, content, index, previous>>

status_command(a) ==
    LET summary == collect_feature_summary(~a.lenient)
    IN /\ last' = Report("status", a, summary.ok, FALSE, FALSE, FALSE, 0)
       /\ UNCHANGED <<present, content, index, dirty, previous>>

verify_command(a) ==
    LET summary == collect_feature_summary(~a.lenient)
    IN /\ last' = Report("verify", a, summary.ok, FALSE, FALSE, FALSE,
                         exit_status(summary.ok))
       /\ UNCHANGED <<present, content, index, dirty, previous>>

accept_command(a) ==
    LET summary == collect_feature_summary(~a.lenient)
    IN IF a.mode = "checklist"
       THEN /\ last' = Report("accept", a, summary.ok, TRUE, a.allow_fail, FALSE,
                              exit_status(summary.ok))
            /\ UNCHANGED <<present, content, index, dirty, previous>>
       ELSE IF acceptance_refused(summary.ok, a.allow_fail)
            THEN /\ last' = Report("accept", a, summary.ok, FALSE, a.allow_fail,
                                   FALSE, 1)
                 /\ UNCHANGED <<present, content, index, dirty, previous>>
            ELSE /\ perform_acceptance(~a.no_commit, a.raises)
                 /\ last' = Report("accept", a, summary.ok, FALSE, a.allow_fail,
                                   TRUE, IF a.raises THEN 1 ELSE 0)

SummaryArgs == [json : BOOLEAN, lenient : BOOLEAN]

AcceptArgs ==
    [mode : Modes, json : BOOLEAN, lenient : BOOLEAN, no_commit : BOOLEAN,
     allow_fail : BOOLEAN, raises : BOOLEAN]

StatusCommand == \E a \in SummaryArgs : status_command(a)

VerifyCommand == \E a \in SummaryArgs : verify_command(a)

AcceptCommand == \E a \in AcceptArgs : accept_command(a)

\* The work packages are finished: each is moved to the done lane.
MoveToDone ==
    /\ TotalLog < MaxLog
    /\ \E w \in WorkPackages :
          move_command("move",
              [wp |-> w, lane |-> "done", agent |-> "", shell_pid |-> "",
               assignee |-> None, dry_run |-> FALSE, force |-> TRUE])

NextAccept ==
    MoveToDone \/ GitCommit \/ StatusCommand \/ VerifyCommand \/ AcceptCommand

SpecAccept == Init /\ [][NextAccept]_vars

(* ------------------------- properties: helpers ------------------------ *)

Located(pres, name) == Cardinality({d \in Dirs : <<d, name>> \in pres}) = 1

DirOf(pres, name) == CHOOSE d \in Dirs : <<d, name>> \in pres

Front(text) == split_frontmatter(text).frontmatter

\* The text that follows the frontmatter block.
AfterFront(text) ==
    split_frontmatter(text).padding \o split_frontmatter(text).body

LogOf(text) == activity_entries(split_frontmatter(text).body)

\* The frontmatter lines that are not a value of one of the given keys.
OtherLines(frontmatter, keys) ==
    SelectSeq(frontmatter, LAMBDA line : line[1] = "kv" /\ line[2] \notin keys)

\* The lane a rollback of the work package would move it to.
RollbackTarget(name) ==
    LET entries == LogOf(content[<<DirOf(present, name), name>>])
    IN entries[Len(entries) - 1][4]

CanRollback(name) ==
    /\ Located(present, name)
    /\ Len(LogOf(content[<<DirOf(present, name), name>>])) >= 2
    /\ RollbackTarget(name) \in LANES

\* git status lists a work-package file other than the source and the
\* destination of a move of the work package to the lane.
OthersDirty(name, lane) ==
    /\ Located(present, name)
    /\ DirOf(present, name) # lane
    /\ \E p \in dirty : p # <<DirOf(present, name), name>> /\ p # <<lane, name>>

(* -------------------------------- C1 ---------------------------------- *)

\* C1: after a successful non-dry-run move of a work package from lane A to a
\* different lane B its file is at tasks/B and no longer at tasks/A, its
\* frontmatter lane is B, its frontmatter agent is the agent recorded in the
\* log, exactly one entry naming lane B has been appended to the log, the new
\* path is in the git index and the old path is not.
MoveRelocates ==
    [][(last'.cmd = "move" /\ last'.outcome = "ok") =>
          LET name == last'.wp
              A == DirOf(present, name)
              B == last'.lane
              oldLog == LogOf(content[<<A, name>>])
              new == split_frontmatter(content'[<<B, name>>])
              newLog == activity_entries(new.body)
              n == Len(oldLog)
          IN /\ A # B
             /\ <<B, name>> \in present'
             /\ <<A, name>> \notin present'
             /\ scalar(new.frontmatter, "lane") = B
             /\ Len(newLog) = n + 1
             /\ SubSeq(newLog, 1, n) = oldLog
             /\ newLog[n + 1][4] = B
             /\ newLog[n + 1][2] # ""
             /\ scalar(new.frontmatter, "agent") = newLog[n + 1][2]
             /\ <<B, name>> \in index'
             /\ <<A, name>> \notin index'
      ]_vars

\* A move has relocated a work package.
MoveHappened ==
    /\ last.cmd = "move" /\ last.outcome = "ok" /\ ~last.dry_run
    /\ Located(present, last.wp)
    /\ DirOf(present, last.wp) # "backlog"

(* -------------------------------- C2 ---------------------------------- *)

\* C2: when git status lists work-package files other than the source and the
\* destination of a move, the move (and a rollback, which delegates to move)
\* without --force fails and leaves the files and the index unchanged, and
\* with --force it proceeds and completes.
ForceDecidesConflicts ==
    [][/\ \A a \in MoveArgs :
            (last'.cmd = "move" /\ move_command("move", a)
                /\ OthersDirty(a.wp, a.lane)) =>
               IF a.force THEN last'.outcome \in {"ok", "dryrun"}
               ELSE last'.outcome = "error" /\ UNCHANGED tree
       /\ \A a \in RollbackArgs :
            (last'.cmd = "rollback" /\ rollback_command(a) /\ CanRollback(a.wp)
                /\ OthersDirty(a.wp, RollbackTarget(a.wp))) =>
               IF a.force THEN last'.outcome \in {"ok", "dryrun"}
               ELSE last'.outcome = "error" /\ UNCHANGED tree
      ]_vars

(* -------------------------------- C3 ---------------------------------- *)

\* C3: a successful rollback leaves the work package in the lane it occupied
\* immediately before its current lane.
RollbackReturnsToPriorLane ==
    [][(last'.cmd = "rollback" /\ last'.outcome = "ok") =>
          DirOf(present', last'.wp) = previous[last'.wp]]_vars

(* -------------------------------- C4 ---------------------------------- *)

\* C4: a move, rollback or history invoked with --dry-run leaves the files
\* (location, frontmatter, body) and the git index as they were.
DryRunChangesNothing ==
    [][(last'.cmd \in {"move", "rollback", "history"} /\ last'.dry_run) =>
          UNCHANGED tree]_vars

\* A rollback with --dry-run got as far as reporting the planned move.
DryRunHappened ==
    last.cmd = "rollback" /\ last.dry_run /\ last.outcome = "dryrun"

(* -------------------------------- C5 ---------------------------------- *)

\* C5: after a successful history command the file of the work package is in
\* the same lane directory as before and its frontmatter lane is the same.
HistoryKeepsLane ==
    [][(last'.cmd = "history" /\ last'.outcome = "ok") =>
          LET d == DirOf(present, last'.wp)
          IN /\ present' = present
             /\ scalar(Front(content'[<<d, last'.wp>>]), "lane")
                   = scalar(Front(content[<<d, last'.wp>>]), "lane")]_vars

(* -------------------------------- C6 ---------------------------------- *)

\* C6: a successful move or rollback with --assignee X stores X as the
\* frontmatter assignee; without --assignee the assignee is unchanged.
MoveStoresAssignee ==
    [][/\ \A a \in MoveArgs :
            (last'.cmd = "move" /\ last'.outcome = "ok"
                /\ move_command("move", a)) =>
               scalar(Front(content'[<<a.lane, a.wp>>]), "assignee")
                  = IF a.assignee # None THEN a.assignee
                    ELSE scalar(Front(content[<<DirOf(present, a.wp), a.wp>>]),
                                "assignee")
       /\ \A a \in RollbackArgs :
            (last'.cmd = "rollback" /\ last'.outcome = "ok"
                /\ rollback_command(a)) =>
               scalar(Front(content'[<<RollbackTarget(a.wp), a.wp>>]), "assignee")
                  = IF a.assignee # None THEN a.assignee
                    ELSE scalar(Front(content[<<DirOf(present, a.wp), a.wp>>]),
                                "assignee")
      ]_vars

(* -------------------------------- C9 ---------------------------------- *)

\* Splitting the file at a path and building it again gives the file's text.
RoundTrip ==
    \A p \in present :
        LET parts == split_frontmatter(content[p])
        IN build_document(parts.frontmatter, parts.body, parts.padding) = content[p]

\* The frontmatter keys that move and history set.
WrittenKeys == {"lane", "agent", "shell_pid", "assignee"}

LanesValid ==
    \A p \in present :
        /\ p[1] \in LANES
        /\ HasKey(Front(content[p]), "lane") =>
              scalar(Front(content[p]), "lane") \in LANES

(* -------------------------------- C7 ---------------------------------- *)

\* C7: accept in a mode other than checklist calls perform_acceptance only
\* when the summary has no outstanding item or --allow-fail was given; when
\* the summary is not ok and --allow-fail is absent it exits with status 1
\* and performs nothing.
AcceptanceGuarded ==
    [][(last'.cmd = "accept" /\ ~last'.checklist) =>
          LET ok == collect_feature_summary(~last'.lenient).ok
          IN /\ last'.performed => (ok \/ last'.allow_fail)
             /\ (~ok /\ ~last'.allow_fail) =>
                   (last'.exit = 1 /\ ~last'.performed /\ UNCHANGED tree)
      ]_vars

\* An accept was refused for outstanding items.
AcceptRefused ==
    /\ last.cmd = "accept" /\ ~last.checklist
    /\ ~last.ok /\ ~last.allow_fail /\ last.exit = 1 /\ ~last.performed

(* -------------------------------- C8 ---------------------------------- *)

\* C8: verify, status and accept --mode checklist never call
\* perform_acceptance and change neither files nor the git index; verify and
\* accept --mode checklist exit with status 0 exactly when the summary is ok,
\* with JSON output and with text output.
ChecksOnly ==
    [][(last'.cmd \in {"verify", "status"}
            \/ (last'.cmd = "accept" /\ last'.checklist)) =>
          /\ ~last'.performed
          /\ UNCHANGED tree
          /\ last'.cmd # "status" =>
                (last'.exit = 0 <=> collect_feature_summary(~last'.lenient).ok)
          /\ last'.cmd # "status" =>
                (last'.exit = 1 <=> ~collect_feature_summary(~last'.lenient).ok)
      ]_vars

\* A verify with JSON output passed on a finished feature.
VerifyPassed ==
    /\ last.cmd = "verify" /\ last.json /\ last.exit = 0
    /\ \A p \in present : p[1] = "done"

(* -------------------------------- C11 --------------------------------- *)

\* C11: a move whose target lane is the lane the work package is in is
\* rejected with an error and has no side effect: no file is written or
\* relocated, no frontmatter key changes, no log entry is appended and the
\* git index and the set of changed paths stay as they were.
SameLaneMoveRejected ==
    [][(/\ last'.cmd = "move"
        /\ Located(present, last'.wp)
        /\ last'.lane = DirOf(present, last'.wp)) =>
          /\ last'.outcome = "error"
          /\ last'.exit = 1
          /\ UNCHANGED tree
      ]_vars

\* A move to the current lane was rejected for a work package that an
\* earlier command had already rewritten.
SameLaneMoveHappened ==
    /\ last.cmd = "move" /\ last.outcome = "error"
    /\ Located(present, last.wp)
    /\ last.lane = DirOf(present, last.wp)
    /\ LogOf(content[<<last.lane, last.wp>>]) # <<>>
    /\ <<last.lane, last.wp>> \in dirty

(* -------------------------------- C12 --------------------------------- *)

\* The log of the single file of a work package.
LogIn(pres, cont, name) == LogOf(cont[<<DirOf(pres, name), name>>])

IsPrefix(s, t) == Len(s) <= Len(t) /\ SubSeq(t, 1, Len(s)) = s

\* C12: the activity log is append-only. A successful move, history or
\* rollback that is not a dry run makes the log the earlier log followed by
\* exactly one new entry; a rejected or dry-run invocation leaves every log
\* as it was; and no step of these commands leaves a file whose log does not
\* start with the whole earlier log of its work package.
LogAppendOnly ==
    [][last'.cmd \in {"move", "history", "rollback"} =>
          /\ (last'.outcome = "ok") =>
                /\ ~last'.dry_run
                /\ Located(present, last'.wp) /\ Located(present', last'.wp)
                /\ Len(LogIn(present', content', last'.wp))
                     = Len(LogIn(present, content, last'.wp)) + 1
                /\ IsPrefix(LogIn(present, content, last'.wp),
                            LogIn(present', content', last'.wp))
                /\ \A p \in Paths : p[2] # last'.wp =>
                        content'[p] = content[p]
          /\ (last'.outcome \in {"error", "dryrun"}) =>
                /\ present' = present
                /\ \A p \in Paths :
                      \/ content'[p] = content[p]
                      \/ LogOf(content'[p]) = LogOf(content[p])
          /\ \A p \in present' :
                \/ p \in present /\ content'[p] = content[p]
                \/ \E q \in present :
                      /\ q[2] = p[2]
                      /\ IsPrefix(LogOf(content[q]), LogOf(content'[p]))
      ]_vars

\* A rollback succeeded and the log holds the entry it undid and the entries
\* before it.
RollbackAppended ==
    /\ last.cmd = "rollback" /\ last.outcome = "ok"
    /\ Located(present, last.wp)
    /\ Len(LogIn(present, content, last.wp)) >= 3

====
